---- MODULE Spec2Model ----
(***************************************************************************)
(* The on-chain event indexer of remitlend (backend/src/services/          *)
(* eventIndexer.ts, indexerManager.ts, db/connection.ts and the            *)
(* loan-events migration) as a state machine.                              *)
(*                                                                         *)
(* The database is PostgreSQL behind a pg Pool.  Every statement of the    *)
(* indexer goes through query(), i.e. pool.query(): the pool hands each    *)
(* statement to whichever client is idle at that moment.  The read-side    *)
(* HTTP handlers share the same pool, so which client a statement gets is  *)
(* not determined by the indexer: it is chosen here with \E c \in Conns.   *)
(* A client holds its own transaction state: BEGIN opens a transaction on  *)
(* that client only, a write on a client without an open transaction is    *)
(* committed at once, a write on a client with an open transaction stays   *)
(* pending on it until a COMMIT or ROLLBACK reaches the same client.  A    *)
(* statement that fails makes pool.query() release its client with the     *)
(* error, which closes it (the server rolls its transaction back).         *)
(***************************************************************************)
EXTENDS Integers, Sequences, FiniteSets, TLC

\* ---------------------------------------------------------------- bounds
NEvents == 3        \* events the source emits in one behaviour
MaxLedger == 2      \* ledgers the source closes in one behaviour
BatchSize == 2      \* config.batchSize
PoolSize == 2       \* clients of the pg Pool
MaxInFlight == 2    \* poll() invocations and timers alive at the same time
MaxFaults == 1      \* injected failures (a statement or a fetch that throws)
MaxCrashes == 1     \* process kills

Conns == 1..PoolSize
Procs == 1..MaxInFlight

\* undefined + 1 in JavaScript: not a number.
NaN == 0 - 1
\* A property that an object does not have.
Undefined == 0 - 2
\* SQL NULL in last_indexed_cursor.
NULL == 0

Recognized == {"LoanRequested", "LoanApproved", "LoanRepaid"}
\* The kind tags the source emits in the model: one recognized, one not.
Syms == {"LoanRequested", "Transfer"}

\* process.env.LOAN_MANAGER_CONTRACT_ID when the variable is not set.
NoContractId == ""
\* The values of LOAN_MANAGER_CONTRACT_ID: not set, or the id of the contract.
ContractIds == {NoContractId, "CLOAN"}

\* No read-side handler has answered yet.
NoResponse == [req |-> [handler |-> "none"], status |-> 0, rows |-> <<>>]
\* The manager has dropped no instance.
NoOrphans == [procs |-> {}, timers |-> {}]

VARIABLES
    res,            \* what the last read-side handler sent: status and rows
    orphans,        \* invocations and timers of instances the manager dropped
    contractId,     \* config.contractId, from LOAN_MANAGER_CONTRACT_ID
    source,         \* the raw events the source holds, in ledger order
    loan_events,    \* committed rows of table loan_events, in insertion order
    indexer_state,  \* committed rows of table indexer_state (none or one)
    conns,          \* per pool client: open transaction and its pending writes
    isRunning,      \* EventIndexer.isRunning
    pollTimeout,    \* EventIndexer.pollTimeout: the handle last returned by setTimeout
    timers,         \* handles of the timers that are armed and have not fired
    proc,           \* the poll() invocations: position and locals
    faults,         \* failures injected so far
    crashes         \* process kills so far

vars == <<res, orphans, contractId, source, loan_events, indexer_state, conns, isRunning, pollTimeout,
          timers, proc, faults, crashes>>

\* ------------------------------------------------------------ sequences
Last(s) == s[Len(s)]

Take(s, n) == IF Len(s) <= n THEN s ELSE SubSeq(s, 1, n)

Range(s) == {s[k] : k \in 1..Len(s)}

\* ------------------------------------------------------------ the source
\* rpc.Server.getEvents({startLedger, filters, limit}): at most `limit` events of
\* the contract with ledger >= startLedger, oldest first, and a cursor naming the
\* last event returned.  A request whose startLedger is not a number carries no
\* start position: the source serves it from the oldest ledger it holds (or
\* rejects it, see FetchError).
GetEvents(startLedger, limit) ==
    LET from == IF startLedger = NaN THEN 1 ELSE startLedger
        InRange(e) == e.ledger >= from
        evs == Take(SelectSeq(source, InRange), limit)
    IN  [events |-> evs, cursor |-> IF evs = <<>> THEN NULL ELSE Last(evs).id]

\* The source closes its next ledger, in which the contract emitted n events:
\* they get the next ids.  The events of a ledger become visible together.
CloseLedger ==
    /\ LET ledger == IF source = <<>> THEN 1 ELSE Last(source).ledger + 1
       IN  /\ ledger <= MaxLedger
           /\ \E n \in 1..(NEvents - Len(source)) : \E syms \in [1..n -> Syms] :
                 source' = source \o [k \in 1..n |->
                                        [id |-> Len(source) + k, ledger |-> ledger,
                                         sym |-> syms[k]]]
    /\ UNCHANGED <<res, orphans, contractId, loan_events, indexer_state, conns, isRunning,
                   pollTimeout, timers, proc, faults, crashes>>

\* ---------------------------------------------------------- the database
NoTxn == [inTxn |-> FALSE, ins |-> <<>>, upd |-> <<>>]

\* What a statement run on client c reads: the committed rows and the pending
\* writes of c's own transaction.
VisibleEvents(c) == loan_events \o conns[c].ins
VisibleState(c) == IF conns[c].upd # <<>> THEN conns[c].upd ELSE indexer_state

\* Another client's open transaction holds an uncommitted row with this event_id:
\* the unique index makes an INSERT of the same event_id wait for it.
InsertWaits(c, eid) ==
    \E d \in Conns \ {c} : \E r \in Range(conns[d].ins) : r.event_id = eid

\* Another client's open transaction holds the row lock of the progress row.
UpdateWaits(c) == \E d \in Conns \ {c} : conns[d].upd # <<>>

\* The table without its unique constraint.
NoUniqueConstraint(c, eid) == FALSE

\* unique: true on loan_events.event_id.
UniqueViolation(c, eid) == \E r \in Range(VisibleEvents(c)) : r.event_id = eid

\* pool.query() releases a client whose statement failed with the error: the
\* client is closed and its transaction is gone.
Released(c) == [conns EXCEPT ![c] = NoTxn]

\* ------------------------------------------------------------ the indexer
\* A poll() invocation that is not running, and the locals of one that is.
\* preEvents, preState and stopped are history: the committed tables as they were
\* when the cycle began, and whether stop() was called while the invocation
\* awaited getEvents.
Free ==
    [pc |-> "free", start |-> 0, batch |-> <<>>, cursor |-> NULL, events |-> <<>>,
     i |-> 0, failedAt |-> "none", stopped |-> FALSE, preEvents |-> <<>>, preState |-> <<>>]

\* poll() invocations that are between their first and their last statement.
Polling == {p \in Procs : proc[p].pc # "free"}
\* poll() invocations whose indexEvents() has not returned or thrown yet.
InCycle == {p \in Procs : proc[p].pc \notin {"free", "arm"}}

FreeSlot == CHOOSE p \in Procs : proc[p].pc = "free" /\ \A q \in 1..(p - 1) : proc[q].pc # "free"

\* poll(), up to its first await: the isRunning test, then indexEvents() up to the
\* query of getIndexerState.
PollBegin ==
    LET p == FreeSlot
    IN  proc' = [q \in Procs |->
                   IF q = p
                   THEN [Free EXCEPT !.pc = "state", !.preEvents = loan_events,
                                     !.preState = indexer_state]
                   ELSE proc[q]]

\* A start() without its isRunning test.
StartAlways ==
    /\ Cardinality(Polling) + Cardinality(timers) < MaxInFlight
    /\ isRunning' = TRUE
    /\ PollBegin
    /\ UNCHANGED <<res, orphans, contractId, source, loan_events, indexer_state, conns, pollTimeout, timers,
                   faults, crashes>>

\* start()
Start ==
    \/ /\ isRunning
       /\ UNCHANGED vars
    \/ /\ ~isRunning
       /\ Cardinality(Polling) + Cardinality(timers) < MaxInFlight
       /\ isRunning' = TRUE
       /\ PollBegin
       /\ UNCHANGED <<res, orphans, contractId, source, loan_events, indexer_state, conns, pollTimeout, timers,
                      faults, crashes>>

\* stop()
Stop ==
    /\ isRunning' = FALSE
    /\ timers' = IF pollTimeout # 0 THEN timers \ {pollTimeout} ELSE timers
    /\ proc' = [p \in Procs |->
                   IF proc[p].pc = "fetch" THEN [proc[p] EXCEPT !.stopped = TRUE]
                   ELSE proc[p]]
    /\ UNCHANGED <<res, orphans, contractId, source, loan_events, indexer_state, conns, pollTimeout, faults,
                   crashes>>

\* The callback of setTimeout(() => this.poll(), pollIntervalMs).
TimerFire(h) ==
    /\ h \in timers
    /\ timers' = timers \ {h}
    /\ IF isRunning THEN PollBegin ELSE UNCHANGED proc
    /\ UNCHANGED <<res, orphans, contractId, source, loan_events, indexer_state, conns, isRunning, pollTimeout,
                   faults, crashes>>

\* The property lastIndexedLedger of what getIndexerState() returns: the row of
\* the SELECT has the columns last_indexed_ledger and last_indexed_cursor and no
\* property lastIndexedLedger; the default object has lastIndexedLedger: 0.
LastIndexedLedger(rows) == IF rows # <<>> THEN Undefined ELSE 0

\* The property lastIndexedCursor of what getIndexerState() returns: the row has
\* no such property, the default object has lastIndexedCursor: null.
LastIndexedCursor(rows) == IF rows # <<>> THEN Undefined ELSE NULL

\* state.lastIndexedLedger + 1
StartLedger(rows) ==
    IF LastIndexedLedger(rows) = Undefined THEN NaN ELSE LastIndexedLedger(rows) + 1

\* indexEvents(): const state = await this.getIndexerState()
GetIndexerState(p, c) ==
    /\ proc[p].pc = "state"
    /\ proc' = [proc EXCEPT ![p].pc = "fetch", ![p].start = StartLedger(VisibleState(c))]
    /\ UNCHANGED <<res, orphans, contractId, source, loan_events, indexer_state, conns, isRunning, pollTimeout,
                   timers, faults, crashes>>

\* decodeEventType
DecodeEventType(sym) == IF sym \in Recognized THEN sym ELSE "null"

\* processEvents(): the events whose kind tag is recognized, in batch order.
ProcessEvents(batch) ==
    LET Known(e) == DecodeEventType(e.sym) # "null"
        kept == SelectSeq(batch, Known)
    IN  [k \in 1..Len(kept) |->
           [eventId |-> kept[k].id, eventType |-> DecodeEventType(kept[k].sym),
            ledger |-> kept[k].ledger]]

\* indexEvents(): the response of getEvents arrives; an empty batch returns, a
\* batch with no decoded event skips storeEvents() (it returns at once).
FetchOk(p) ==
    /\ proc[p].pc = "fetch"
    /\ LET response == GetEvents(proc[p].start, BatchSize)
           events == ProcessEvents(response.events)
       IN  proc' = [proc EXCEPT
                      ![p].batch = response.events,
                      ![p].cursor = response.cursor,
                      ![p].events = events,
                      ![p].i = 1,
                      ![p].pc = IF response.events = <<>> THEN "arm"
                                ELSE IF events = <<>> THEN "update"
                                ELSE "begin"]
    /\ UNCHANGED <<res, orphans, contractId, source, loan_events, indexer_state, conns, isRunning, pollTimeout,
                   timers, faults, crashes>>

\* An indexEvents() that moves the progress row past the requested ledger when
\* getEvents rejects.
FetchErrorSkips(p) ==
    /\ proc[p].pc = "fetch"
    /\ proc' = [proc EXCEPT ![p].pc = "arm", ![p].failedAt = "fetch"]
    /\ indexer_state' = <<[last_indexed_ledger |-> MaxLedger, last_indexed_cursor |-> NULL]>>
    /\ UNCHANGED <<res, orphans, contractId, source, loan_events, conns, isRunning, pollTimeout,
                   timers, faults, crashes>>

\* getEvents rejects: the source is unavailable or refuses the request.
FetchError(p) ==
    /\ proc[p].pc = "fetch"
    /\ proc' = [proc EXCEPT ![p].pc = "arm", ![p].failedAt = "fetch"]
    /\ UNCHANGED <<res, orphans, contractId, source, loan_events, indexer_state, conns, isRunning, pollTimeout,
                   timers, faults, crashes>>

\* storeEvents(): await query("BEGIN", [])
Begin(p, c) ==
    /\ proc[p].pc = "begin"
    /\ conns' = [conns EXCEPT ![c].inTxn = TRUE]
    /\ proc' = [proc EXCEPT ![p].pc = "select"]
    /\ UNCHANGED <<res, orphans, contractId, source, loan_events, indexer_state, isRunning, pollTimeout, timers,
                   faults, crashes>>

\* The loop of storeEvents() moves to its next event, or to COMMIT after the last.
NextEvent(p) ==
    IF proc[p].i < Len(proc[p].events)
    THEN [proc EXCEPT ![p].i = proc[p].i + 1, ![p].pc = "select"]
    ELSE [proc EXCEPT ![p].pc = "commit"]

\* The row INSERT INTO loan_events writes for a decoded event.
Row(e) == [event_id |-> e.eventId, event_type |-> e.eventType, ledger |-> e.ledger]

\* A storeEvents() that overwrites the row of an event id it finds stored.
SelectUpserts(p, c) ==
    /\ proc[p].pc = "select"
    /\ LET e == proc[p].events[proc[p].i]
           ex == {r \in Range(VisibleEvents(c)) : r.event_id = e.eventId}
       IN  /\ proc' = IF ex # {} THEN NextEvent(p) ELSE [proc EXCEPT ![p].pc = "insert"]
           /\ loan_events' = [k \in 1..Len(loan_events) |->
                                IF loan_events[k].event_id = e.eventId THEN Row(e)
                                ELSE loan_events[k]]
    /\ UNCHANGED <<res, orphans, contractId, source, indexer_state, conns, isRunning, pollTimeout,
                   timers, faults, crashes>>

\* storeEvents(): SELECT id FROM loan_events WHERE event_id = $1; continue if found
Select(p, c) ==
    /\ proc[p].pc = "select"
    /\ LET e == proc[p].events[proc[p].i]
           ex == {r \in Range(VisibleEvents(c)) : r.event_id = e.eventId}
       IN  proc' = IF ex # {} THEN NextEvent(p) ELSE [proc EXCEPT ![p].pc = "insert"]
    /\ UNCHANGED <<res, orphans, contractId, source, loan_events, indexer_state, conns, isRunning, pollTimeout,
                   timers, faults, crashes>>

\* storeEvents(): INSERT INTO loan_events ...
Insert(p, c) ==
    /\ proc[p].pc = "insert"
    /\ LET e == proc[p].events[proc[p].i]
       IN  \/ /\ ~InsertWaits(c, e.eventId)
              /\ ~UniqueViolation(c, e.eventId)
              /\ IF conns[c].inTxn
                 THEN /\ conns' = [conns EXCEPT ![c].ins = Append(@, Row(e))]
                      /\ UNCHANGED loan_events
                 ELSE /\ loan_events' = Append(loan_events, Row(e))
                      /\ UNCHANGED conns
              /\ proc' = NextEvent(p)
           \/ /\ ~InsertWaits(c, e.eventId)
              /\ UniqueViolation(c, e.eventId)
              /\ conns' = Released(c)
              /\ proc' = [proc EXCEPT ![p].pc = "rollback", ![p].failedAt = "store"]
              /\ UNCHANGED loan_events
    /\ UNCHANGED <<res, orphans, contractId, source, indexer_state, isRunning, pollTimeout, timers, faults, crashes>>

\* COMMIT on client c: the pending writes of its transaction become committed; on
\* a client with no open transaction it does nothing.
Committed(c) ==
    /\ loan_events' = loan_events \o conns[c].ins
    /\ indexer_state' = VisibleState(c)
    /\ conns' = [conns EXCEPT ![c] = NoTxn]

\* storeEvents(): await query("COMMIT", [])
Commit(p, c) ==
    /\ proc[p].pc = "commit"
    /\ Committed(c)
    /\ proc' = [proc EXCEPT ![p].pc = "update"]
    /\ UNCHANGED <<res, orphans, contractId, source, isRunning, pollTimeout, timers, faults, crashes>>

\* storeEvents(): catch (err) { await query("ROLLBACK", []); throw err; }
\* ROLLBACK on client c drops the pending writes of its transaction.  A ROLLBACK
\* that fails closes c as well, and the cycle ends with an error either way.
Rollback(p, c) ==
    /\ proc[p].pc = "rollback"
    /\ conns' = [conns EXCEPT ![c] = NoTxn]
    /\ proc' = [proc EXCEPT ![p].pc = "arm", ![p].failedAt = "store"]
    /\ UNCHANGED <<res, orphans, contractId, source, loan_events, indexer_state, isRunning, pollTimeout, timers,
                   faults, crashes>>

\* The row UPDATE indexer_state SET ... writes.
StateRow(ledger, cursor) ==
    <<[last_indexed_ledger |-> ledger, last_indexed_cursor |-> cursor]>>

\* indexEvents(): const last = response.events[length - 1];
\*                await this.updateIndexerState(last.ledger, response.cursor || "")
UpdateIndexerState(p, c) ==
    /\ proc[p].pc = "update"
    /\ LET last == Last(proc[p].batch)
           row == StateRow(last.ledger, proc[p].cursor)
       IN  /\ ~UpdateWaits(c)
           /\ IF VisibleState(c) = <<>>
              THEN UNCHANGED <<indexer_state, conns>>
              ELSE IF conns[c].inTxn
              THEN conns' = [conns EXCEPT ![c].upd = row] /\ UNCHANGED indexer_state
              ELSE indexer_state' = row /\ UNCHANGED conns
           /\ proc' = [proc EXCEPT ![p].pc = "arm"]
    /\ UNCHANGED <<res, orphans, contractId, source, loan_events, isRunning, pollTimeout, timers, faults, crashes>>

\* query() rejects: the database fails the statement the invocation awaits, and
\* pool.query() closes the client it ran on.  Inside storeEvents() the catch
\* block takes over (ROLLBACK, rethrow); in getIndexerState() and
\* updateIndexerState() the error leaves indexEvents() and poll() catches it.
QueryThrows(p, c) ==
    /\ proc[p].pc \in {"state", "begin", "select", "insert", "commit", "update"}
    /\ faults < MaxFaults
    /\ faults' = faults + 1
    /\ conns' = Released(c)
    /\ proc' = IF proc[p].pc = "state" THEN [proc EXCEPT ![p].pc = "arm", ![p].failedAt = "state"]
               ELSE IF proc[p].pc = "update" THEN [proc EXCEPT ![p].pc = "arm", ![p].failedAt = "update"]
               ELSE [proc EXCEPT ![p].pc = "rollback", ![p].failedAt = "store"]
    /\ UNCHANGED <<res, orphans, contractId, source, loan_events, indexer_state, isRunning, pollTimeout, timers,
                   crashes>>

\* A handle setTimeout has not handed out to a timer that is still known.
FreshHandle ==
    CHOOSE h \in 1..(MaxInFlight + 1) :
        /\ h \notin timers \cup {pollTimeout}
        /\ \A g \in 1..(h - 1) : g \in timers \cup {pollTimeout}

\* A poll() without its try/catch: an error of the cycle escapes and the
\* timer is armed after a successful cycle only.
ArmOnSuccess(p) ==
    /\ proc[p].pc = "arm"
    /\ pollTimeout' = IF proc[p].failedAt = "none" THEN FreshHandle ELSE pollTimeout
    /\ timers' = IF proc[p].failedAt = "none" THEN timers \cup {FreshHandle} ELSE timers
    /\ proc' = [proc EXCEPT ![p] = Free]
    /\ UNCHANGED <<res, orphans, contractId, source, loan_events, indexer_state, conns, isRunning, faults, crashes>>

\* A poll() that schedules the next cycle only after a batch that held events.
ArmUnlessEmpty(p) ==
    /\ proc[p].pc = "arm"
    /\ pollTimeout' = IF proc[p].batch # <<>> THEN FreshHandle ELSE pollTimeout
    /\ timers' = IF proc[p].batch # <<>> THEN timers \cup {FreshHandle} ELSE timers
    /\ proc' = [proc EXCEPT ![p] = Free]
    /\ UNCHANGED <<res, orphans, contractId, source, loan_events, indexer_state, conns, isRunning, faults, crashes>>

\* poll(): this.pollTimeout = setTimeout(() => this.poll(), pollIntervalMs)
Arm(p) ==
    /\ proc[p].pc = "arm"
    /\ pollTimeout' = FreshHandle
    /\ timers' = timers \cup {FreshHandle}
    /\ proc' = [proc EXCEPT ![p] = Free]
    /\ UNCHANGED <<res, orphans, contractId, source, loan_events, indexer_state, conns, isRunning, faults, crashes>>

\* The pool closes a client that stayed idle (idleTimeoutMillis); the server rolls
\* back the transaction that was left open on it.
IdleTimeout(c) ==
    /\ conns[c] # NoTxn
    /\ conns' = Released(c)
    /\ UNCHANGED <<res, orphans, contractId, source, loan_events, indexer_state, isRunning, pollTimeout, timers,
                   proc, faults, crashes>>

\* The process is killed (SIGKILL, or SIGTERM/SIGINT: stopIndexer(), process.exit):
\* its invocations, timers and database clients are gone; the tables stay.
Crash ==
    /\ crashes < MaxCrashes
    /\ crashes' = crashes + 1
    /\ isRunning' = FALSE
    /\ pollTimeout' = 0
    /\ timers' = {}
    /\ proc' = [p \in Procs |-> Free]
    /\ conns' = [c \in Conns |-> NoTxn]
    /\ UNCHANGED <<res, orphans, contractId, source, loan_events, indexer_state, faults>>

\* After the migration: no event rows, one progress row with ledger 0 and no
\* cursor; a constructed EventIndexer that was not started.
Init ==
    /\ res = NoResponse
    /\ orphans = NoOrphans
    /\ contractId \in ContractIds
    /\ source = <<>>
    /\ loan_events = <<>>
    /\ indexer_state = StateRow(0, NULL)
    /\ conns = [c \in Conns |-> NoTxn]
    /\ isRunning = FALSE
    /\ pollTimeout = 0
    /\ timers = {}
    /\ proc = [p \in Procs |-> Free]
    /\ faults = 0
    /\ crashes = 0

\* A startIndexer() without its contractId test.
StartIndexerUnchecked == Start

\* startIndexer(): returns when there is an instance already (then isRunning is
\* set: start() set it when the instance was made and only a kill ends it), warns
\* and returns when no contract id is configured, else makes the EventIndexer and
\* calls its start().
StartIndexer ==
    \/ /\ contractId = NoContractId
       /\ UNCHANGED vars
    \/ /\ contractId # NoContractId
       /\ Start

\* getIndexer() # null: there is an instance from startIndexer() until the
\* process ends.
IndexerInstance == isRunning

\* The steps of a poll() invocation.
Step(p, c) ==
    \/ GetIndexerState(p, c)
    \/ FetchOk(p)
    \/ FetchError(p)
    \/ Begin(p, c)
    \/ Select(p, c)
    \/ Insert(p, c)
    \/ Commit(p, c)
    \/ Rollback(p, c)
    \/ UpdateIndexerState(p, c)
    \/ Arm(p)

\* The program as index.ts runs it: startIndexer() when the server listens, and
\* stopIndexer() only from the signal handlers, right before process.exit(0).
Next ==
    \/ CloseLedger
    \/ StartIndexer
    \/ \E h \in 1..(MaxInFlight + 1) : TimerFire(h)
    \/ \E p \in Procs, c \in Conns : Step(p, c)
    \/ \E p \in Procs, c \in Conns : QueryThrows(p, c)
    \/ \E c \in Conns : IdleTimeout(c)
    \/ Crash

Spec == Init /\ [][Next]_vars

\* The tables with the progress row lost: indexer_state has no row (the row of
\* the migration was deleted, or the table was created without it).
InitNoRow ==
    /\ res = NoResponse
    /\ orphans = NoOrphans
    /\ contractId \in ContractIds
    /\ source = <<>>
    /\ loan_events = <<>>
    /\ indexer_state = <<>>
    /\ conns = [c \in Conns |-> NoTxn]
    /\ isRunning = FALSE
    /\ pollTimeout = 0
    /\ timers = {}
    /\ proc = [p \in Procs |-> Free]
    /\ faults = 0
    /\ crashes = 0

\* The program of Spec started on tables without the progress row.
SpecNoRow == InitNoRow /\ [][Next]_vars

\* The source delivers its first event with another content than before: the
\* same id, the kind tag LoanRepaid instead of LoanRequested.
Redeliver ==
    /\ source # <<>>
    /\ source[1].sym = "LoanRequested"
    /\ source' = [source EXCEPT ![1].sym = "LoanRepaid"]
    /\ UNCHANGED <<res, orphans, contractId, loan_events, indexer_state, conns, isRunning,
                   pollTimeout, timers, proc, faults, crashes>>

\* The program of Spec on a source that may redeliver an id with new content.
NextAppend == Next \/ Redeliver

SpecAppend == Init /\ [][NextAppend]_vars

\* A source that already holds all its events: the first ledger fills one
\* batch, the last event is of a kind the indexer does not know.
FullSource ==
    [k \in 1..NEvents |->
       [id |-> k,
        ledger |-> IF k <= BatchSize THEN 1 ELSE MaxLedger,
        sym |-> IF k < NEvents THEN "LoanRequested" ELSE "Transfer"]]

InitApi ==
    /\ res = NoResponse
    /\ orphans = NoOrphans
    /\ contractId = "CLOAN"
    /\ source = FullSource
    /\ loan_events = <<>>
    /\ indexer_state = StateRow(0, NULL)
    /\ conns = [c \in Conns |-> NoTxn]
    /\ isRunning = FALSE
    /\ pollTimeout = 0
    /\ timers = {}
    /\ proc = [p \in Procs |-> Free]
    /\ faults = 0
    /\ crashes = 0

\* An EventIndexer whose start() and stop() are called at any time, against a
\* source that holds its events from the beginning, with a database that fails
\* no statement and a process that is not killed.
NextApi ==
    \/ Start
    \/ Stop
    \/ \E h \in 1..(MaxInFlight + 1) : TimerFire(h)
    \/ \E p \in Procs, c \in Conns : Step(p, c)

SpecApi == InitApi /\ [][NextApi]_vars

\* ------------------------------------------------ the manager's instances
\* indexerManager.ts keeps one EventIndexer in indexerInstance.  isRunning and
\* pollTimeout are the fields of that instance, and there is an instance exactly
\* when isRunning holds: startIndexer() calls start() on the instance it makes,
\* stopIndexer() calls stop() on the one it drops.  orphans holds the poll()
\* invocations and the timers of the instances that were dropped: their
\* isRunning is false for good.

\* stopIndexer(): indexerInstance.stop(); indexerInstance = null
StopIndexer ==
    /\ isRunning
    /\ isRunning' = FALSE
    /\ timers' = IF pollTimeout # 0 THEN timers \ {pollTimeout} ELSE timers
    /\ pollTimeout' = 0
    /\ orphans' = [orphans EXCEPT !.procs = Polling]
    /\ proc' = [p \in Procs |->
                   IF proc[p].pc = "fetch" THEN [proc[p] EXCEPT !.stopped = TRUE]
                   ELSE proc[p]]
    /\ UNCHANGED <<res, contractId, source, loan_events, indexer_state, conns, faults, crashes>>

\* poll() of a dropped instance after its cycle: line 52 arms a timer of that
\* instance, which no stop() will clear.
OrphanArm(p) ==
    /\ p \in orphans.procs
    /\ proc[p].pc = "arm"
    /\ timers' = timers \cup {FreshHandle}
    /\ orphans' = [procs |-> orphans.procs \ {p}, timers |-> orphans.timers \cup {FreshHandle}]
    /\ proc' = [proc EXCEPT ![p] = Free]
    /\ UNCHANGED <<res, contractId, source, loan_events, indexer_state, conns, isRunning,
                   pollTimeout, faults, crashes>>

\* The timer of a dropped instance fires: its poll() returns at once.
OrphanTimerFire(h) ==
    /\ h \in orphans.timers
    /\ timers' = timers \ {h}
    /\ orphans' = [orphans EXCEPT !.timers = @ \ {h}]
    /\ UNCHANGED <<res, contractId, source, loan_events, indexer_state, conns, isRunning,
                   pollTimeout, proc, faults, crashes>>

\* A step of a poll() invocation of the instance the manager holds.
InstanceStep(p, c) == p \notin orphans.procs /\ Step(p, c)

\* A step of a poll() invocation of a dropped instance.
OrphanStep(p, c) ==
    /\ p \in orphans.procs
    /\ IF proc[p].pc = "arm" THEN OrphanArm(p) ELSE Step(p, c)

\* The tables after the migration, the source of SpecApi, no instance; the
\* contract id is configured or not.
InitMgr ==
    /\ res = NoResponse
    /\ orphans = NoOrphans
    /\ contractId \in ContractIds
    /\ source = FullSource
    /\ loan_events = <<>>
    /\ indexer_state = StateRow(0, NULL)
    /\ conns = [c \in Conns |-> NoTxn]
    /\ isRunning = FALSE
    /\ pollTimeout = 0
    /\ timers = {}
    /\ proc = [p \in Procs |-> Free]
    /\ faults = 0
    /\ crashes = 0

\* startIndexer() and stopIndexer() called at any time against the source and
\* the database of SpecApi.
NextMgr ==
    \/ StartIndexer
    \/ StopIndexer
    \/ \E h \in 1..(MaxInFlight + 1) : h \notin orphans.timers /\ TimerFire(h)
    \/ \E h \in 1..(MaxInFlight + 1) : OrphanTimerFire(h)
    \/ \E p \in Procs, c \in Conns : InstanceStep(p, c)
    \/ \E p \in Procs, c \in Conns : OrphanStep(p, c)

SpecMgr == InitMgr /\ [][NextMgr]_vars

\* ------------------------------------------------------------ decoding
\* The decoding of one batch, with raw events as the Soroban RPC delivers them:
\* type, contractId (absent: <<>>), topic (a sequence of ScVal, so that topic[k]
\* of the code is topic[k + 1] here) and value (a ScVal).  An optional property
\* or a nullable column is <<>> when absent or NULL, <<v>> when it holds v.
MaxBatch == 2       \* raw events in the decoded batch

ScSym(s) == [t |-> "sym", v |-> s]
ScAddress == [t |-> "address", v |-> "GBORROWER"]
ScU32(n) == [t |-> "u32", v |-> n]
ScI128(n) == [t |-> "i128", v |-> n]
ScVoid == [t |-> "void", v |-> 0]

Topic0s == {ScSym("LoanRequested"), ScSym("Transfer"), ScU32(7)}
Topic1s == {ScAddress, ScU32(7)}
Topic2s == {ScU32(0), ScU32(7), ScSym("x")}
Topics ==
    {<<>>} \cup {<<a>> : a \in Topic0s}
           \cup {<<a, b>> : a \in Topic0s, b \in Topic1s}
           \cup {<<a, b, c>> : a \in Topic0s, b \in Topic1s, c \in Topic2s}
Values == {ScI128(1500), ScVoid}
\* type and contractId of a raw event: a contract event, a contract event with
\* no contractId, a system event.
Origins == {<<"contract", <<"CLOAN">> >>, <<"contract", <<>> >>, <<"system", <<"CLOAN">> >>}

RawEvent(k, o, tp, val) ==
    [id |-> k, ledger |-> k, type |-> o[1], contractId |-> o[2], topic |-> tp,
     value |-> val]

\* The batch of n raw events, with ids and ledgers 1..n, that f describes.
RawChoices == Origins \X Topics \X Values
RawBatch(n, f) == [k \in 1..n |-> RawEvent(k, f[k][1], f[k][2], f[k][3])]

\* decodeEventType: x.sym() throws on a ScVal that is no symbol, and the catch
\* returns null.
DecodeEventTypeScVal(x) == IF x.t = "sym" THEN DecodeEventType(x.v) ELSE "null"
\* decodeAddress
DecodeAddress(x) == IF x.t = "address" THEN x.v ELSE ""
\* decodeAmount
DecodeAmount(x) == IF x.t = "i128" THEN ToString(x.v) ELSE "0"
\* decodeLoanId
DecodeLoanId(x) == IF x.t = "u32" THEN x.v ELSE 0

\* processEvents(): the events the loop leaves out with `continue`.
Skipped(e) ==
    \/ e.type # "contract"
    \/ Len(e.topic) < 2
    \/ e.contractId = <<>>
    \/ DecodeEventTypeScVal(e.topic[1]) = "null"

\* processEvents(): the LoanEvent built for a raw event that is not left out.
LoanEvent(e) ==
    [eventId |-> e.id,
     eventType |-> DecodeEventTypeScVal(e.topic[1]),
     borrower |-> DecodeAddress(e.topic[2]),
     ledger |-> e.ledger,
     amount |-> <<DecodeAmount(e.value)>>,
     loanId |-> IF Len(e.topic) >= 3 THEN <<DecodeLoanId(e.topic[3])>> ELSE <<>>]

\* A processEvents() whose loop ends at the first event it leaves out.
ProcessRawUntilSkipped(batch) ==
    LET Stops == {k \in 1..Len(batch) : Skipped(batch[k])}
        n == IF Stops = {} THEN Len(batch)
             ELSE (CHOOSE k \in Stops : \A j \in Stops : k <= j) - 1
    IN  [k \in 1..n |-> LoanEvent(batch[k])]

\* processEvents()
ProcessRaw(batch) ==
    LET Kept(e) == ~Skipped(e)
        kept == SelectSeq(batch, Kept)
    IN  [k \in 1..Len(kept) |-> LoanEvent(kept[k])]

\* x || null of JavaScript on an optional number and on an optional string: null
\* when x is absent or falsy (0, the empty string).
NumberOrNull(x) == IF x = <<>> THEN <<>> ELSE IF x[1] = 0 THEN <<>> ELSE x
StringOrNull(x) == IF x = <<>> THEN <<>> ELSE IF x[1] = "" THEN <<>> ELSE x

\* storeEvents(): the parameters of INSERT INTO loan_events for a LoanEvent.
InsertRow(e) ==
    [event_id |-> e.eventId, event_type |-> e.eventType, loan_id |-> NumberOrNull(e.loanId),
     borrower |-> e.borrower, amount |-> StringOrNull(e.amount), ledger |-> e.ledger]

\* A batch has arrived in invocation 1; nothing is decoded or stored yet.
InitDecode ==
    /\ res = NoResponse
    /\ orphans = NoOrphans
    /\ contractId = "CLOAN"
    /\ source = <<>>
    /\ loan_events = <<>>
    /\ indexer_state = StateRow(0, NULL)
    /\ conns = [c \in Conns |-> NoTxn]
    /\ isRunning = TRUE
    /\ pollTimeout = 0
    /\ timers = {}
    /\ \E n \in 0..MaxBatch : \E f \in [1..n -> RawChoices] :
          proc = [p \in Procs |->
                    IF p = 1 THEN [Free EXCEPT !.pc = "process", !.batch = RawBatch(n, f)]
                    ELSE Free]
    /\ faults = 0
    /\ crashes = 0

\* const events = await this.processEvents(response.events)
Process ==
    /\ proc[1].pc = "process"
    /\ proc' = [proc EXCEPT ![1].events = ProcessRaw(proc[1].batch), ![1].i = 1,
                            ![1].pc = "store"]
    /\ UNCHANGED <<res, orphans, contractId, source, loan_events, indexer_state, conns, isRunning,
                   pollTimeout, timers, faults, crashes>>

\* storeEvents() on a table with none of the batch's events: the next INSERT.
Store ==
    /\ proc[1].pc = "store"
    /\ proc[1].i <= Len(proc[1].events)
    /\ loan_events' = Append(loan_events, InsertRow(proc[1].events[proc[1].i]))
    /\ proc' = [proc EXCEPT ![1].i = proc[1].i + 1]
    /\ UNCHANGED <<res, orphans, contractId, source, indexer_state, conns, isRunning, pollTimeout,
                   timers, faults, crashes>>

NextDecode == Process \/ Store

SpecDecode == InitDecode /\ [][NextDecode]_vars

\* ------------------------------------------------- the read-side handlers
\* indexerController.ts and loanController.ts answer HTTP requests from the two
\* tables.  They are taken over a store of any content, with no indexer cycle
\* under way; what a handler sends is kept in res.
MaxRows == 2
MaxLoanId == 1
MaxDays == 365
Borrowers == {"GA", "GB"}
Amounts == {1500}
StoredLoanIds == {<<>>} \cup {<<n>> : n \in 1..MaxLoanId}
\* storeEvents() gives every row an amount (decodeAmount never yields none).
StoredAmounts == {<<ToString(n)>> : n \in Amounts}
StoredChoices ==
    Recognized \X StoredLoanIds \X Borrowers \X StoredAmounts \X (1..MaxLedger)
\* The k-th row of loan_events, its columns chosen by f.
StoredRow(k, f) ==
    [event_id |-> k, event_type |-> f[1], loan_id |-> f[2], borrower |-> f[3],
     amount |-> f[4], ledger |-> f[5]]

\* const { limit = 20, eventType } = req.query
DefaultRecentLimit == 20
\* const { limit = 50, offset = 0 } = req.query
DefaultBorrowerLimit == 50
\* Query and route parameters: <<>> when the request has none.
LimitParams == {<<>>, <<0 - 1>>, <<1>>, <<MaxRows>>}
OffsetParams == {<<>>, <<1>>}
EventTypeParams == {<<>>, <<"">>, <<"LoanRequested">>, <<"LoanRepaid">>, <<"Transfer">>}
BorrowerParams == {""} \cup Borrowers
LoanIdParams == {"", "x"} \cup {ToString(n) : n \in 1..(MaxLoanId + 1)}
StatusParams == {<<>>, <<"all">>, <<"repaid">>}

\* The database converts a text parameter compared with an integer column; a
\* text that is no integer makes the query fail.
IsInteger(s) == \E n \in 0..(MaxLoanId + 1) : ToString(n) = s
ToInteger(s) == CHOOSE n \in 0..(MaxLoanId + 1) : ToString(n) = s
\* parseFloat(amount || "0") on a NUMERIC column value
ParseAmount(a) == IF a = <<>> THEN 0 ELSE CHOOSE n \in Amounts \cup {0} : ToString(n) = a[1]

\* The rows S of a SELECT without ORDER BY, in any order.
Arrangements(S) ==
    {s \in [1..Cardinality(S) -> S] :
        \A j, k \in 1..Cardinality(S) : j # k => s[j] # s[k]}
\* ORDER BY ledger DESC: rows of the same ledger come in any order.
OrderByLedgerDesc(S) ==
    {s \in Arrangements(S) : \A j, k \in 1..Len(s) : j < k => s[j].ledger >= s[k].ledger}
\* ORDER BY ledger ASC
OrderByLedgerAsc(S) ==
    {s \in Arrangements(S) : \A j, k \in 1..Len(s) : j < k => s[j].ledger <= s[k].ledger}
\* LIMIT n OFFSET m
LimitOffset(s, n, m) ==
    IF Len(s) <= m THEN <<>>
    ELSE SubSeq(s, m + 1, IF Len(s) <= m + n THEN Len(s) ELSE m + n)

\* What a handler sends: res.json(...) and res.status(n).json(...); req is the
\* request it answers.
Json(req, rows) == [req |-> req, status |-> 200, rows |-> rows]
BadRequest(req) == [req |-> req, status |-> 400, rows |-> <<>>]
NotFound(req) == [req |-> req, status |-> 404, rows |-> <<>>]
ServerError(req) == [req |-> req, status |-> 500, rows |-> <<>>]

\* getIndexerStatus() that creates the progress row when it finds none.
GetIndexerStatusCreates ==
    /\ res' = Json([handler |-> "getIndexerStatus"], <<>>)
    /\ indexer_state' = IF indexer_state = <<>> THEN StateRow(0, NULL) ELSE indexer_state
    /\ UNCHANGED <<orphans, contractId, source, loan_events, conns, isRunning,
                   pollTimeout, timers, proc, faults, crashes>>

\* getIndexerStatus(): the progress row, the number of events and the number per
\* type; 404 when indexer_state has no row.
GetIndexerStatus ==
    /\ LET req == [handler |-> "getIndexerStatus"]
       IN  \/ res' = ServerError(req)
           \/ res' = IF indexer_state = <<>> THEN NotFound(req)
                     ELSE LET types == {r.event_type : r \in Range(loan_events)}
                              count(t) == Cardinality({r \in Range(loan_events) :
                                                          r.event_type = t})
                          IN  Json(req, <<[lastIndexedLedger |-> indexer_state[1].last_indexed_ledger,
                                      lastIndexedCursor |-> indexer_state[1].last_indexed_cursor,
                                      totalEvents |-> Len(loan_events),
                                      eventsByType |-> [t \in types |-> count(t)]]>>)
    /\ UNCHANGED <<orphans, contractId, source, loan_events, indexer_state, conns, isRunning,
                   pollTimeout, timers, proc, faults, crashes>>

\* getBorrowerEvents(): WHERE borrower = $1 ORDER BY ledger DESC LIMIT $2 OFFSET $3;
\* a negative LIMIT makes the query fail.
GetBorrowerEvents(borrower, limit, offset) ==
    /\ LET req == [handler |-> "getBorrowerEvents", borrower |-> borrower,
                   limit |-> limit, offset |-> offset]
       IN  LET n == IF limit = <<>> THEN DefaultBorrowerLimit ELSE limit[1]
               m == IF offset = <<>> THEN 0 ELSE offset[1]
               found == {r \in Range(loan_events) : r.borrower = borrower}
           IN  \/ res' = ServerError(req)
               \/ /\ n >= 0
                  /\ \E s \in OrderByLedgerDesc(found) : res' = Json(req, LimitOffset(s, n, m))
    /\ UNCHANGED <<orphans, contractId, source, loan_events, indexer_state, conns, isRunning,
                   pollTimeout, timers, proc, faults, crashes>>

\* getLoanEvents(): 400 without a loan id; WHERE loan_id = $1 ORDER BY ledger ASC.
GetLoanEvents(loanId) ==
    /\ LET req == [handler |-> "getLoanEvents", loanId |-> loanId]
       IN  IF loanId = "" THEN res' = BadRequest(req)
           ELSE \/ res' = ServerError(req)
                \/ /\ IsInteger(loanId)
                   /\ LET found == {r \in Range(loan_events) : r.loan_id = <<ToInteger(loanId)>>}
                      IN  \E s \in OrderByLedgerAsc(found) : res' = Json(req, s)
    /\ UNCHANGED <<orphans, contractId, source, loan_events, indexer_state, conns, isRunning,
                   pollTimeout, timers, proc, faults, crashes>>

\* getRecentEvents() without the WHERE clause.
RecentUnfiltered(eventType) == Range(loan_events)

\* getRecentEvents(): if (eventType) queryText += " WHERE event_type = $1"
RecentFound(eventType) ==
    IF eventType # <<>> /\ eventType[1] # ""
    THEN {r \in Range(loan_events) : r.event_type = eventType[1]}
    ELSE Range(loan_events)

\* getRecentEvents(): ... ORDER BY ledger DESC LIMIT $n
GetRecentEvents(limit, eventType) ==
    /\ LET req == [handler |-> "getRecentEvents", limit |-> limit, eventType |-> eventType]
       IN  LET n == IF limit = <<>> THEN DefaultRecentLimit ELSE limit[1]
           IN  \/ res' = ServerError(req)
               \/ /\ n >= 0
                  /\ \E s \in OrderByLedgerDesc(RecentFound(eventType)) :
                        res' = Json(req, LimitOffset(s, n, 0))
    /\ UNCHANGED <<orphans, contractId, source, loan_events, indexer_state, conns, isRunning,
                   pollTimeout, timers, proc, faults, crashes>>

\* The largest element of a non-empty set of numbers.
MaxOf(S) == CHOOSE x \in S : \A y \in S : y <= x
RECURSIVE SumAmounts(_)
\* SUM(CAST(amount AS NUMERIC)) over rows, a NULL amount adding nothing.
SumAmounts(rows) ==
    IF rows = {} THEN 0
    ELSE LET r == CHOOSE x \in rows : TRUE
         IN  ParseAmount(r.amount) + SumAmounts(rows \ {r})
\* principal + principal * 0.05 * days / 365 - totalRepaid > 0.01, both sides
\* multiplied by 36500.
IsActive(principal, days, totalRepaid) ==
    principal * 36500 + principal * 5 * days - totalRepaid * 36500 > 365

\* getBorrowerLoans(): one loan per approved loan_id of the borrower, with the
\* interest accrued over the days since the approval, filtered by status.
GetBorrowerLoans(borrower, status) ==
    /\ LET req == [handler |-> "getBorrowerLoans", borrower |-> borrower, status |-> status]
       IN  IF borrower = "" THEN res' = BadRequest(req)
           ELSE \/ res' = ServerError(req)
                \/ \E days \in {0, MaxDays} :
                      LET wanted == IF status = <<>> THEN "active" ELSE status[1]
                          mine == {r \in Range(loan_events) :
                                      r.borrower = borrower /\ r.loan_id # <<>>}
                          of(id) == {r \in mine : r.loan_id = id}
                          approved == {id \in {r.loan_id : r \in mine} :
                                         \E r \in of(id) : r.event_type = "LoanApproved"}
                          requested(id) == {ParseAmount(r.amount) :
                                              r \in {x \in of(id) : x.event_type = "LoanRequested"}}
                          principal(id) == IF requested(id) = {} THEN 0 ELSE MaxOf(requested(id))
                          repaid(id) == SumAmounts({r \in of(id) : r.event_type = "LoanRepaid"})
                          loan(id) == [id |-> id[1], principal |-> principal(id),
                                       totalRepaid |-> repaid(id),
                                       status |-> IF IsActive(principal(id), days, repaid(id))
                                                  THEN "active" ELSE "repaid"]
                          loans == {loan(id) : id \in approved}
                          filtered == IF wanted = "all" THEN loans
                                      ELSE {l \in loans : l.status = wanted}
                      IN  \E s \in Arrangements(filtered) : res' = Json(req, s)
    /\ UNCHANGED <<orphans, contractId, source, loan_events, indexer_state, conns, isRunning,
                   pollTimeout, timers, proc, faults, crashes>>

\* getLoanDetails(): 400 without a loan id, 404 for a loan with no event; the
\* figures of the loan from its events in closing order (the order of ledgers).
GetLoanDetails(loanId) ==
    /\ LET req == [handler |-> "getLoanDetails", loanId |-> loanId]
       IN  IF loanId = "" THEN res' = BadRequest(req)
           ELSE \/ res' = ServerError(req)
                \/ /\ IsInteger(loanId)
                   /\ LET found == {r \in Range(loan_events) : r.loan_id = <<ToInteger(loanId)>>}
                      IN  IF found = {} THEN res' = NotFound(req)
                          ELSE \E s \in OrderByLedgerAsc(found) : \E days \in {0, MaxDays} :
                                  LET first(t) == SelectSeq(s, LAMBDA r : r.event_type = t)
                                      principal == IF first("LoanRequested") = <<>> THEN 0
                                                   ELSE ParseAmount(first("LoanRequested")[1].amount)
                                      repaid == SumAmounts(Range(first("LoanRepaid")))
                                      elapsed == IF first("LoanApproved") = <<>> THEN 0 ELSE days
                                  IN  res' = Json(req, <<[loanId |-> ToInteger(loanId),
                                                     principal |-> principal,
                                                     totalRepaid |-> repaid,
                                                     status |-> IF IsActive(principal, elapsed, repaid)
                                                                THEN "active" ELSE "repaid",
                                                     events |-> s]>>)
    /\ UNCHANGED <<orphans, contractId, source, loan_events, indexer_state, conns, isRunning,
                   pollTimeout, timers, proc, faults, crashes>>

\* A store of any content: up to MaxRows rows with distinct event ids, the
\* progress row absent or present; no indexer is running.
InitRead ==
    /\ res = NoResponse
    /\ orphans = NoOrphans
    /\ contractId = "CLOAN"
    /\ source = <<>>
    /\ \E n \in 0..MaxRows : \E f \in [1..n -> StoredChoices] :
          loan_events = [k \in 1..n |-> StoredRow(k, f[k])]
    /\ indexer_state \in {<<>>, StateRow(MaxLedger, NULL)}
    /\ conns = [c \in Conns |-> NoTxn]
    /\ isRunning = FALSE
    /\ pollTimeout = 0
    /\ timers = {}
    /\ proc = [p \in Procs |-> Free]
    /\ faults = 0
    /\ crashes = 0

NextRead ==
    \/ GetIndexerStatus
    \/ \E b \in BorrowerParams, l \in LimitParams, o \in OffsetParams : GetBorrowerEvents(b, l, o)
    \/ \E id \in LoanIdParams : GetLoanEvents(id)
    \/ \E l \in LimitParams, t \in EventTypeParams : GetRecentEvents(l, t)
    \/ \E b \in BorrowerParams, s \in StatusParams : GetBorrowerLoans(b, s)
    \/ \E id \in LoanIdParams : GetLoanDetails(id)

SpecRead == InitRead /\ [][NextRead]_vars

\* ------------------------------------------------------------ the claims
EventIds(rows) == {r.event_id : r \in Range(rows)}
DecodedIds(p) == {e.eventId : e \in Range(proc[p].events)}
\* The rows committed to loan_events since the cycle of p began.
RowsSince(p) ==
    {loan_events[k] : k \in (Len(proc[p].preEvents) + 1)..Len(loan_events)}
SetMax(S) == CHOOSE x \in S : \A y \in S : y <= x

\* C1: when storeEvents() fails, then once the cycle has ended the committed
\* loan_events table is what it was before the cycle, and so is the progress row.
C1_NoPartialWrite ==
    \A p \in Procs :
        (proc[p].pc = "arm" /\ proc[p].failedAt = "store")
            => /\ loan_events = proc[p].preEvents
               /\ indexer_state = proc[p].preState

\* C2: the events of a batch and the advance of the progress row are committed
\* together: in no state are all decoded events of a cycle's batch (none of them
\* stored before the cycle) committed while the progress row is what it was
\* before the cycle, nor is the progress row changed while one of them is not
\* committed.
C2_EventsAndProgressAtomic ==
    \A p \in Procs :
        (/\ proc[p].pc \notin {"free", "state", "fetch"}
         /\ proc[p].events # <<>>
         /\ DecodedIds(p) \cap EventIds(proc[p].preEvents) = {})
            => (DecodedIds(p) \subseteq EventIds(loan_events)
                  <=> indexer_state # proc[p].preState)

\* C3: every recognized event the source holds with a ledger up to the committed
\* last_indexed_ledger has a row in loan_events.
C3_NoGap ==
    \A k \in 1..Len(source) :
        (/\ source[k].sym \in Recognized
         /\ indexer_state # <<>>
         /\ source[k].ledger <= indexer_state[1].last_indexed_ledger)
            => source[k].id \in EventIds(loan_events)

C6_SingleCycleInFlight == Cardinality(InCycle) <= 1

\* The cycle of p ended without an error on a batch that was not empty.
Succeeded(p) ==
    proc[p].pc = "arm" /\ proc[p].failedAt = "none" /\ proc[p].batch # <<>>

\* C7: a cycle whose fetch was pending when stop() was called persists its events
\* and its progress, and when its poll() returns with the controller still
\* stopped, no timer gets armed.
C7_StopDuringFetch ==
    /\ [](\A p \in Procs :
            (proc[p].stopped /\ Succeeded(p))
                => /\ DecodedIds(p) \subseteq EventIds(loan_events)
                   /\ indexer_state = StateRow(Last(proc[p].batch).ledger, proc[p].cursor))
    /\ [][\A p \in Procs :
            (proc[p].stopped /\ proc[p].pc = "arm" /\ proc'[p].pc = "free" /\ ~isRunning)
                => timers' = timers]_vars

\* Every ready callback of the process runs: a pending statement or fetch
\* settles, an armed timer fires, the pool closes an idle client, a process that
\* was killed is started again, and the source does not reject for ever.
Fairness ==
    /\ \A p \in Procs : WF_vars(\E c \in Conns : Step(p, c))
    /\ \A h \in 1..(MaxInFlight + 1) : WF_vars(TimerFire(h))
    /\ \A c \in Conns : WF_vars(IdleTimeout(c))
    /\ WF_vars(StartIndexer)
    /\ SF_vars(\E p \in Procs : FetchOk(p))

SpecLive == Init /\ [][Next]_vars /\ Fairness

\* A cycle has ended, whatever its outcome: poll() is about to arm the timer.
CycleEnded == \E p \in Procs : proc[p].pc = "arm"
CycleStarted == \E p \in Procs : proc[p].pc = "state"

\* C8: after a cycle ends, with an error or without, the next cycle is scheduled
\* and starts, unless the controller is stopped first.
C8_LoopSurvivesFailures == CycleEnded ~> (CycleStarted \/ ~isRunning)

\* C8 witness: with no kill, a cycle has started after an earlier cycle ended
\* with a failed statement.
C8_Witness == crashes = 0 /\ faults = MaxFaults /\ isRunning /\ CycleStarted

\* The number of stored rows that carry the id of source event k.
Copies(k) ==
    Cardinality({j \in 1..Len(loan_events) : loan_events[j].event_id = source[k].id})

\* C5: whenever the process is killed and started again, eventually every
\* recognized source event is stored exactly once, and stays so.
C5_ExactlyOnceAcrossRestarts ==
    (crashes > 0 /\ isRunning)
        ~> [](\A k \in 1..Len(source) : source[k].sym \in Recognized => Copies(k) = 1)

\* The committed progress: last_indexed_ledger of the indexer_state row.
LastLedger == indexer_state[1].last_indexed_ledger

\* C9: after a successful cycle over a batch that was not empty the committed
\* last_indexed_ledger is at least what it was before the cycle and is the
\* highest ledger of the rows the cycle persisted; and no step lowers it.
C9_Monotonic ==
    /\ [](\A p \in Procs :
            (Succeeded(p) /\ indexer_state # <<>> /\ proc[p].preState # <<>>)
                => /\ LastLedger >= proc[p].preState[1].last_indexed_ledger
                   /\ RowsSince(p) # {}
                        => LastLedger = SetMax({r.ledger : r \in RowsSince(p)}))
    /\ [][(indexer_state # <<>> /\ indexer_state' # <<>>)
            => LastLedger' >= LastLedger]_vars

\* C10: after a successful cycle over a batch that was not empty the committed
\* progress row holds the highest ledger of the raw events of the batch and the
\* cursor the source returned with the batch.
C10_ProgressIsBatchMaxAndCursor ==
    \A p \in Procs :
        Succeeded(p)
            => indexer_state =
                 StateRow(SetMax({e.ledger : e \in Range(proc[p].batch)}), proc[p].cursor)

\* The persisted lastLedger a cycle reads: last_indexed_ledger of the progress
\* row, 0 when there is no row.
PersistedLedger(rows) == IF rows = <<>> THEN 0 ELSE rows[1].last_indexed_ledger

\* C11: the request a cycle sends has start ledger = persisted lastLedger + 1,
\* whether the progress row exists or not, and the batch it gets is bounded by
\* batchSize.
C11_FetchAfterLastLedger ==
    [][\A p \in Procs :
         /\ (proc[p].pc = "state" /\ proc'[p].pc = "fetch")
               => \E c \in Conns :
                     proc'[p].start = PersistedLedger(VisibleState(c)) + 1
         /\ (proc[p].pc = "fetch" /\ proc'[p].pc # "fetch")
               => Len(proc'[p].batch) <= BatchSize]_vars

\* The cycle of p ended without an error on an empty batch.
EmptyCycle(p) ==
    proc[p].pc = "arm" /\ proc[p].failedAt = "none" /\ proc[p].batch = <<>>

\* poll() returns: the invocation p leaves its last statement in a process that
\* is not killed.
Returns(p) == proc[p].pc = "arm" /\ proc'[p].pc = "free" /\ crashes' = crashes

\* C12: a cycle whose fetch returned no event leaves loan_events and the progress
\* row as they were when it began, the step that receives the empty batch
\* touches no database client, and the poll() of that cycle arms the next timer.
C12_EmptyBatchNoEffect ==
    /\ [](\A p \in Procs :
            EmptyCycle(p) => /\ loan_events = proc[p].preEvents
                             /\ indexer_state = proc[p].preState)
    /\ [][\A p \in Procs :
            /\ (proc[p].pc = "fetch" /\ EmptyCycle(p)') => conns' = conns
            /\ (EmptyCycle(p) /\ Returns(p))
                  => \E h \in timers' \ timers : pollTimeout' = h]_vars

\* C12 witness: a cycle received an empty batch and ended.
C12_Witness == \E p \in Procs : EmptyCycle(p) /\ isRunning

\* The cycle of p ended because getEvents rejected.
FetchFailed(p) == proc[p].pc = "arm" /\ proc[p].failedAt = "fetch"

\* The start ledgers a request can carry.
StartLedgers == {NaN} \cup 1..(MaxLedger + 1)

\* C13: a cycle whose getEvents call failed leaves loan_events and the progress
\* row as they were when it began, its poll() goes on to arm the next timer, and
\* a later cycle sends a request with the same start ledger, unless the process
\* is killed first.
C13_FetchErrorRetried ==
    /\ [](\A p \in Procs :
            FetchFailed(p) => /\ loan_events = proc[p].preEvents
                              /\ indexer_state = proc[p].preState)
    /\ [][\A p \in Procs :
            (FetchFailed(p) /\ Returns(p))
                => \E h \in timers' \ timers : pollTimeout' = h]_vars
    /\ \A s \in StartLedgers :
          (\E p \in Procs : FetchFailed(p) /\ proc[p].start = s)
              ~> ((\E p \in Procs : proc[p].pc = "fetch" /\ proc[p].start = s)
                    \/ ~isRunning)

\* C13 witness: a cycle ended with a rejected fetch in a running controller.
C13_Witness == \E p \in Procs : FetchFailed(p) /\ isRunning

\* The batch of p's cycle holds an event that had a row when the cycle began.
HadDuplicate(p) ==
    /\ proc[p].pc \notin {"free", "state", "fetch"}
    /\ DecodedIds(p) \cap EventIds(proc[p].preEvents) # {}

\* C14: a cycle over a batch of which some event ids were stored already keeps
\* the rows that were there, never fails on a rejected INSERT, and when it has
\* ended without an error every decoded event of the batch has a row.
C14_DuplicateIsNoError ==
    /\ [](\A p \in Procs :
            HadDuplicate(p)
                => /\ Len(loan_events) >= Len(proc[p].preEvents)
                   /\ SubSeq(loan_events, 1, Len(proc[p].preEvents)) = proc[p].preEvents
                   /\ Succeeded(p) => DecodedIds(p) \subseteq EventIds(loan_events))
    /\ [][\A p \in Procs :
            ~(/\ HadDuplicate(p)
              /\ proc[p].pc = "insert"
              /\ proc'[p].pc = "rollback"
              /\ faults' = faults)]_vars

\* A step in which the invocation p begins a cycle.
Begins(p) == proc[p].pc = "free" /\ proc'[p].pc = "state"

\* C15: start() on a stopped controller sets isRunning and begins exactly one
\* cycle in the same step, arming no timer; a cycle begins in no other step than
\* such a start() or the firing of a timer, and a timer is armed only by a
\* poll() that returns: so start() on a running controller begins no cycle and
\* arms no timer.
C15_IdempotentStart ==
    [][/\ (~isRunning /\ isRunning')
            => /\ Cardinality({p \in Procs : Begins(p)}) = 1
               /\ timers' = timers
               /\ pollTimeout' = pollTimeout
       /\ (\E p \in Procs : Begins(p))
            => \/ ~isRunning /\ isRunning'
               \/ isRunning /\ isRunning' /\ \E h \in timers : timers' = timers \ {h}
       /\ (~(timers' \subseteq timers) \/ pollTimeout' # pollTimeout)
            => \E p \in Procs : proc[p].pc = "arm" /\ proc'[p].pc = "free"]_vars

\* C15 witness: right after the first start(): running, the first cycle begun,
\* no timer armed yet.
C15_Witness ==
    /\ isRunning
    /\ pollTimeout = 0
    /\ timers = {}
    /\ Cardinality({p \in Procs : proc[p].pc = "state"}) = 1

\* C16: stop() on a running controller with a timer pending and no cycle in
\* flight leaves the controller stopped with no timer pending, and no cycle
\* begins while the controller is stopped.
C16_StopBetweenCycles ==
    [][/\ (isRunning /\ ~isRunning' /\ Polling = {} /\ timers # {}) => timers' = {}
       /\ (~isRunning /\ ~isRunning') => ~\E p \in Procs : Begins(p)]_vars

\* C17: when no contract id is configured, startIndexer() makes no instance,
\* no cycle begins, no timer is armed, no statement reaches a database client
\* and both tables stay as the migration left them.
C17_NoContractNoIndexer ==
    contractId = NoContractId
        => /\ ~IndexerInstance
           /\ Polling = {}
           /\ timers = {}
           /\ pollTimeout = 0
           /\ conns = [c \in Conns |-> NoTxn]
           /\ loan_events = <<>>
           /\ indexer_state = StateRow(0, NULL)

\* C17 witness: no contract id is configured and the source holds all its events,
\* recognized ones among them.
C17_Witness ==
    /\ contractId = NoContractId
    /\ Len(source) = NEvents
    /\ \E k \in 1..Len(source) : source[k].sym \in Recognized

\* The kind tag of a raw event is one of the three recognized symbols.
KindRecognized(e) ==
    Len(e.topic) >= 1 /\ e.topic[1].t = "sym" /\ e.topic[1].v \in Recognized

\* A contract event with a contractId, a recognized kind tag and a subject topic.
Decodable(e) ==
    /\ e.type = "contract"
    /\ e.contractId # <<>>
    /\ Len(e.topic) >= 2
    /\ KindRecognized(e)

\* processEvents() has returned for the batch of invocation 1; every INSERT of
\* its result is done.
Processed == proc[1].pc = "store"
Stored == Processed /\ proc[1].i > Len(proc[1].events)

\* The ids of a sequence of raw events and of a sequence of LoanEvents, in order.
RawIds(evs) == [k \in 1..Len(evs) |-> evs[k].id]
LoanEventIds(evs) == [k \in 1..Len(evs) |-> evs[k].eventId]

C19_BadAddressSkipped ==
    Stored
        => \A k \in 1..Len(proc[1].batch) :
              LET e == proc[1].batch[k]
              IN  Decodable(e)
                    => IF e.topic[2].t = "address"
                       THEN e.id \in EventIds(loan_events)
                       ELSE /\ e.id \notin Range(LoanEventIds(proc[1].events))
                            /\ e.id \notin EventIds(loan_events)

\* C20: a decodable event whose value does not decode to an i128 is stored, and
\* its row has amount NULL.
C20_BadAmountIsNull ==
    Stored
        => \A k \in 1..Len(proc[1].batch) :
              LET e == proc[1].batch[k]
              IN  (Decodable(e) /\ e.topic[2].t = "address" /\ e.value.t # "i128")
                    => /\ e.id \in EventIds(loan_events)
                       /\ \A r \in Range(loan_events) :
                             r.event_id = e.id => r.amount = <<>>

\* The cursor the progress row holds, NULL when there is no row.
PersistedCursor(rows) == IF rows = <<>> THEN NULL ELSE rows[1].last_indexed_cursor

\* C21: while the SELECT of getIndexerState() is pending, whichever client
\* serves it, what the caller gets as lastIndexedLedger and lastIndexedCursor is
\* the ledger and the cursor of the progress row that client sees (0 and no
\* cursor when there is no row).
C21_GetProgressReturnsRow ==
    \A p \in Procs :
        proc[p].pc = "state"
            => \A c \in Conns :
                  /\ LastIndexedLedger(VisibleState(c)) = PersistedLedger(VisibleState(c))
                  /\ LastIndexedCursor(VisibleState(c)) = PersistedCursor(VisibleState(c))

\* What getRecentEvents answered to a request with the event type t: rows of
\* the Event Store with that event_type only, none twice, no more than the
\* limit asked for, the higher ledger first.
FilteredBy(t) ==
    /\ \A k \in 1..Len(res.rows) :
          res.rows[k] \in Range(loan_events) /\ res.rows[k].event_type = t
    /\ \A j, k \in 1..Len(res.rows) : j < k => res.rows[j] # res.rows[k]
    /\ Len(res.rows) <= (IF res.req.limit = <<>> THEN DefaultRecentLimit
                         ELSE res.req.limit[1])
    /\ \A j, k \in 1..Len(res.rows) : j < k => res.rows[j].ledger >= res.rows[k].ledger

\* getRecentEvents has answered a request with status 200.
RecentAnswered == res.req.handler = "getRecentEvents" /\ res.status = 200

\* C22 as stated: whatever eventType parameter the request carries, the empty
\* one included, getRecentEvents returns only stored events of that event_type,
\* at most limit of them, in descending ledger order.
C22_FilterAnyEventType ==
    (RecentAnswered /\ res.req.eventType # <<>>) => FilteredBy(res.req.eventType[1])

\* C22 amended: getRecentEvents called with a non-empty eventType returns only
\* stored events whose event_type equals it, at most limit of them, in
\* descending ledger order; an empty eventType is no filter.
C22_FilterByEventType ==
    (RecentAnswered /\ res.req.eventType # <<>> /\ res.req.eventType[1] # "")
        => FilteredBy(res.req.eventType[1])

\* C22 witness: a filtered request with limit 1 was answered with one event
\* while the store holds another event of that type and one of another type.
C22_Witness ==
    /\ RecentAnswered
    /\ res.req.eventType = <<"LoanRepaid">>
    /\ res.req.limit = <<1>>
    /\ Len(res.rows) = 1
    /\ \E r \in Range(loan_events) : r.event_type = "LoanRepaid" /\ r # res.rows[1]

\* C28: where only the read-side handlers run (getIndexerStatus,
\* getBorrowerEvents, getLoanEvents, getRecentEvents, getBorrowerLoans,
\* getLoanDetails), no step changes the Event Store, the progress row or what a
\* database client holds pending.
C28_HandlersOnlyRead ==
    [][/\ loan_events' = loan_events
       /\ indexer_state' = indexer_state
       /\ conns' = conns]_vars

\* C28 witness: getLoanDetails has answered with the figures of a loan whose
\* events are in the store, the progress row being there.
C28_Witness ==
    /\ res.req.handler = "getLoanDetails"
    /\ res.status = 200
    /\ Len(res.rows[1].events) = MaxRows
    /\ indexer_state # <<>>

\* A cycle has ended whose persistence failed: a statement of storeEvents() or
\* of updateIndexerState() threw.
PersistFailed(p) == proc[p].pc = "arm" /\ proc[p].failedAt \in {"store", "update"}

Failed(p) == proc[p].pc = "arm" /\ proc[p].failedAt # "none"

\* A cycle has ended without an error over a batch of which every decoded event
\* was stored before the cycle began.
OnlyRedelivered(p) == Succeeded(p) /\ DecodedIds(p) \subseteq EventIds(proc[p].preEvents)

\* C24: the progress row changes only in the step of updateIndexerState(), once
\* per cycle, and when a cycle has ended with the progress row changed, the cycle
\* succeeded and inserted a row; a cycle that failed, a cycle over an empty batch
\* and a cycle over a batch of stored events only have inserted no row and left
\* the progress row as it was.
C24_ProgressOnlyWithNewEvents ==
    /\ [](\A p \in Procs :
            /\ (proc[p].pc = "arm" /\ indexer_state # proc[p].preState)
                  => (Succeeded(p) /\ RowsSince(p) # {})
            /\ (Failed(p) \/ EmptyCycle(p) \/ OnlyRedelivered(p))
                  => /\ loan_events = proc[p].preEvents
                     /\ indexer_state = proc[p].preState)
    /\ [][indexer_state' # indexer_state
            => \E p \in Procs : proc[p].pc = "update" /\ proc'[p].pc = "arm"]_vars

\* C25: when a cycle has ended without an error, every row it inserted has a
\* ledger at least the ledger of every row that was there before it; and if it
\* inserted a row, the committed last_indexed_ledger is the highest ledger of the
\* rows it inserted.
C25_LedgerOrderAcrossCycles ==
    \A p \in Procs :
        Succeeded(p)
            => /\ \A r \in RowsSince(p) : \A old \in Range(proc[p].preEvents) :
                     r.ledger >= old.ledger
               /\ RowsSince(p) # {}
                     => /\ indexer_state # <<>>
                        /\ LastLedger = SetMax({r.ledger : r \in RowsSince(p)})

\* C26: a decodable event with an address as subject is stored; when it has a
\* third topic that is the integer n, 0 included, its row has loan_id = n, and
\* when it has no third topic its row has loan_id NULL.
C26_LoanIdStored ==
    Stored
        => \A k \in 1..Len(proc[1].batch) :
              LET e == proc[1].batch[k]
              IN  (Decodable(e) /\ e.topic[2].t = "address")
                    => /\ e.id \in EventIds(loan_events)
                       /\ \A r \in Range(loan_events) :
                             r.event_id = e.id
                                => /\ (Len(e.topic) >= 3 /\ e.topic[3].t = "u32")
                                         => r.loan_id = <<e.topic[3].v>>
                                   /\ Len(e.topic) < 3 => r.loan_id = <<>>

\* C27: every step of the indexer, of the source, of a failing statement or of
\* a kill and restart leaves each committed row of loan_events as it is and in
\* its place: the table after the step is the table before it with rows added
\* at its end, if any.
C27_AppendOnly ==
    [][/\ Len(loan_events') >= Len(loan_events)
       /\ SubSeq(loan_events', 1, Len(loan_events)) = loan_events]_vars

\* C27 witness: a cycle has ended without an error over a batch in which the
\* source delivered as LoanRepaid an event id stored as LoanRequested.
C27_Witness ==
    \E p \in Procs :
        /\ Succeeded(p)
        /\ \E k \in 1..Len(proc[p].events) : \E r \in Range(proc[p].preEvents) :
              /\ r.event_id = proc[p].events[k].eventId
              /\ r.event_type = "LoanRequested"
              /\ proc[p].events[k].eventType = "LoanRepaid"

\* C30: in every state at most one next-cycle timer is pending and a pending
\* timer is the one recorded in pollTimeout; and after a step of stop() on a
\* running controller no timer is pending.
C30_AtMostOneTimer ==
    /\ [](Cardinality(timers) <= 1 /\ timers \subseteq {pollTimeout})
    /\ [][(isRunning /\ ~isRunning') => timers' = {}]_vars

\* The instance the manager holds has a cycle in flight or a timer pending.
InstanceActive == Polling \ orphans.procs # {} \/ timers \ orphans.timers # {}
\* An instance the manager dropped has a cycle in flight or a timer pending.
OrphanActive == orphans.procs # {} \/ orphans.timers # {}

\* C29: in no state do a dropped instance and the instance the manager holds
\* both have a cycle in flight or a timer pending; and a cycle begins only when
\* startIndexer() makes an instance, there being none, or when a timer fires.
C29_SingleIndexer ==
    /\ [](~(InstanceActive /\ OrphanActive))
    /\ [][(\E p \in Procs : Begins(p)) => (~isRunning \/ timers' # timers)]_vars

\* C31: when a cycle that began with no progress row has ended without an error
\* over a batch that was not empty, the progress is recorded: the persisted
\* lastLedger is the highest ledger of the batch, and a request sent next,
\* whichever client serves its getIndexerState(), starts at the ledger after it.
C31_ProgressWithoutRow ==
    \A p \in Procs :
        (Succeeded(p) /\ proc[p].preState = <<>>)
            => LET top == SetMax({e.ledger : e \in Range(proc[p].batch)})
               IN  /\ PersistedLedger(indexer_state) = top
                   /\ \A c \in Conns : StartLedger(VisibleState(c)) = top + 1

\* A cycle has ended without an error over a batch that was not empty and of
\* which processEvents() skipped every event.
AllSkipped(p) == Succeeded(p) /\ proc[p].events = <<>>

\* C32: a cycle over a batch of skipped events only wrote no row, the step that
\* receives such a batch goes on to updateIndexerState() without touching a
\* database client (no BEGIN), and when the cycle has ended the persisted
\* lastLedger is the ledger of the last event of the batch and a request sent
\* next, whichever client serves its getIndexerState(), starts after it.
C32_SkippedDroppedForGood ==
    /\ [](\A p \in Procs :
            AllSkipped(p)
                => /\ loan_events = proc[p].preEvents
                   /\ PersistedLedger(indexer_state) = Last(proc[p].batch).ledger
                   /\ \A c \in Conns :
                         StartLedger(VisibleState(c)) = Last(proc[p].batch).ledger + 1)
    /\ [][\A p \in Procs :
            (proc[p].pc = "fetch" /\ proc'[p].pc = "update") => conns' = conns]_vars
====
